---- MODULE Spec2Model ----
(***************************************************************************)
(* MediReminder (src/App.tsx): the App component's state (medications,     *)
(* notifications), its localStorage mirror, the 60-second due check and    *)
(* the add / delete / take / dismiss handlers.                             *)
(*                                                                         *)
(* Text that the code inspects character by character (names, dosages,     *)
(* times of day, banner texts) is a sequence of one-character strings;     *)
(* text that the code only compares or stores (ids, dates) is a string.    *)
(* Every handler runs to completion (single-threaded event loop), the      *)
(* re-render and the persist effect that follow it included.               *)
(***************************************************************************)
EXTENDS Integers, Sequences, FiniteSets, TLC

VARIABLES
    status,         \* "unloaded" | "running" | "crashed" (render threw, tree unmounted)
    medications,    \* useState<Medication[]>, src/App.tsx:16
    notifications,  \* useState<string[]>, src/App.tsx:29
    storage,        \* localStorage entry under the key 'medications'
    clock,          \* the device clock read by new Date() / Date.now()
    permission,     \* Notification.permission: "default" | "granted" | "denied"
    promptOpen,     \* a Notification.requestPermission() prompt awaits the user
    requests,       \* history: the calls of Notification.requestPermission() since
                    \* the page was loaded (counted up to 2)
    last,           \* history: what the step just taken was: "load" / "tick" (a
                    \* completed due check at startup / on the timer), "alert" (the
                    \* validation alert() of line 96), "dismiss" or "other"
    uids,           \* history: the creation serial of each persisted entry
    hist,           \* history per creation serial: takes and emitted banners
    nextUid         \* history: the next creation serial

vars == <<status, medications, notifications, storage, clock, permission,
          promptOpen, requests, last, uids, hist, nextUid>>

(***************************************************************************)
(* Bounds of the model.                                                    *)
(***************************************************************************)
MaxDay == 2
MaxAdds == 2

\* The form's inputs (src/App.tsx:21-26 and the inputs of the form).
Names == { <<>>, <<"A">>, <<"A", "B">> }
Dosages == { <<>>, <<"1">> }
Frequencies == { "daily" }
Times == { <<"0", "7", ":", "5", "9">>, <<"0", "8", ":", "0", "0">> }

\* The clock readings (hour, minute) at which the model observes the program.
TimesOfDay == { <<7, 59>>, <<8, 0>> }

\* JavaScript null (lastTaken: string | null, src/App.tsx:11).
NULL == "null"

(***************************************************************************)
(* Sequence helpers standing for the Array methods the code uses.          *)
(***************************************************************************)
RECURSIVE SelectIdx(_, _, _)
\* the indices i of 1..n, in order, with keep[i]
SelectIdx(keep, i, n) ==
    IF i > n THEN <<>>
    ELSE IF keep[i] THEN <<i>> \o SelectIdx(keep, i + 1, n)
    ELSE SelectIdx(keep, i + 1, n)

\* Array.prototype.filter with the kept positions given as keep[i]
FilterBy(s, keep) ==
    LET idx == SelectIdx(keep, 1, Len(s))
    IN  [k \in 1..Len(idx) |-> s[idx[k]]]

RECURSIVE Concat(_)
\* the concatenation of a sequence of sequences
Concat(ss) == IF ss = <<>> THEN <<>> ELSE Head(ss) \o Concat(Tail(ss))

\* String.prototype.includes: sub occurs in s as a contiguous run
Includes(s, sub) ==
    \E k \in 0..(Len(s) - Len(sub)) :
        \A j \in 1..Len(sub) : s[k + j] = sub[j]

(***************************************************************************)
(* The clock: new Date(), Date.now(), toLocaleDateString().                *)
(***************************************************************************)
\* now.getHours() * 60 + now.getMinutes()
currentTime(c) == c.hour * 60 + c.minute

\* new Date().toLocaleDateString(): the device-local date as text
toLocaleDateString(c) == "1/" \o ToString(c.day) \o "/2026"

\* Date.now(): milliseconds, counted here from local midnight of day 1
DateNow(c) == (((c.day - 1) * 24 + c.hour) * 60 + c.minute) * 60000

Later(c, d) ==
    \/ d.day > c.day
    \/ d.day = c.day /\ currentTime(d) > currentTime(c)

(***************************************************************************)
(* med.time.split(':').map(Number), src/App.tsx:44-45.                     *)
(***************************************************************************)
Digits == <<"0", "1", "2", "3", "4", "5", "6", "7", "8", "9">>

IsDigit(ch) == \E d \in 1..10 : Digits[d] = ch

DigitValue(ch) == (CHOOSE d \in 1..10 : Digits[d] = ch) - 1

\* a JavaScript number that is either NaN or a natural number
NaN == [nan |-> TRUE, v |-> 0]
Num(n) == [nan |-> FALSE, v |-> n]

RECURSIVE Decimal(_)
Decimal(s) ==
    IF s = <<>> THEN 0
    ELSE Decimal(SubSeq(s, 1, Len(s) - 1)) * 10 + DigitValue(s[Len(s)])

\* Number(text) for the texts a time input yields: '' is 0, digits are
\* their decimal value, anything else is NaN
Number(s) ==
    IF \A k \in 1..Len(s) : IsDigit(s[k]) THEN Num(Decimal(s)) ELSE NaN

RECURSIVE Split(_, _)
\* String.prototype.split(sep) for a one-character separator
Split(s, sep) ==
    IF \A k \in 1..Len(s) : s[k] # sep THEN <<s>>
    ELSE LET k == CHOOSE k \in 1..Len(s) :
                      s[k] = sep /\ \A j \in 1..(k - 1) : s[j] # sep
         IN  <<SubSeq(s, 1, k - 1)>> \o Split(SubSeq(s, k + 1, Len(s)), sep)

\* const [hours, minutes] = ...; hours * 60 + minutes (a missing element is
\* undefined, and arithmetic on undefined or NaN is NaN)
medicationTime(med) ==
    LET parts   == Split(med.time, ":")
        hours   == Number(parts[1])
        minutes == IF Len(parts) >= 2 THEN Number(parts[2]) ELSE NaN
    IN  IF hours.nan \/ minutes.nan THEN NaN
        ELSE Num(hours.v * 60 + minutes.v)

\* a >= b for a number a and a possibly-NaN b (a comparison with NaN is false)
GreaterEq(a, b) == ~b.nan /\ a >= b.v

(***************************************************************************)
(* checkMedications, src/App.tsx:38-71.                                    *)
(***************************************************************************)
\* currentTime >= medicationTime
shouldBeTaken(med, c) == GreaterEq(currentTime(c), medicationTime(med))

\* mutant of takenToday: the comparison never succeeds
takenToday_Never(med, c) == FALSE

\* med.lastTaken === today
takenToday(med, c) == med.lastTaken = toLocaleDateString(c)

\* mutant of shouldNotify: the guard without its !med.missed conjunct
shouldNotify_NoMissedGuard(med, c) ==
    shouldBeTaken(med, c) /\ ~takenToday(med, c)

\* the guard of line 52
shouldNotify(med, c) ==
    shouldBeTaken(med, c) /\ ~takenToday(med, c) /\ ~med.missed

\* `Time to take ${med.name} (${med.dosage})`
NoteText(med) ==
    <<"T", "i", "m", "e", " ", "t", "o", " ", "t", "a", "k", "e", " ">>
        \o med.name \o <<" ", "(">> \o med.dosage \o <<")">>

\* mutant of checkMedications: the flag is recomputed by every check
checkMedications_Recomputes(meds, c) ==
    [i \in 1..Len(meds) |->
        [meds[i] EXCEPT !.missed = shouldBeTaken(meds[i], c) /\ ~takenToday(meds[i], c)]]

\* prevMeds.map(med => ... { ...med, missed: true } ... med)
checkMedications(meds, c) ==
    [i \in 1..Len(meds) |->
        IF shouldNotify(meds[i], c) THEN [meds[i] EXCEPT !.missed = TRUE]
        ELSE meds[i]]

\* the banners queued by setNotifications(prev => [...prev, text]) during the map
newNotifications(meds, c) ==
    Concat([i \in 1..Len(meds) |->
        IF shouldNotify(meds[i], c) THEN <<NoteText(meds[i])>> ELSE <<>>])

\* the positions for which the guard of line 52 holds
DuePositions(meds, c) == { i \in 1..Len(meds) : shouldNotify(meds[i], c) }

(***************************************************************************)
(* Persistence: JSON.stringify / JSON.parse and the localStorage entry,    *)
(* src/App.tsx:16-19 and 31-34.  The stored text is kept as its JSON       *)
(* structure: an array of objects, each a sequence of <<key, token>>       *)
(* pairs in property order; a token is a quoted string, null, true or      *)
(* false.                                                                  *)
(***************************************************************************)
JsonString(s) == <<"string", s>>
JsonNull == <<"null", "">>
JsonBool(b) == IF b THEN <<"true">> ELSE <<"false">>

\* mutant of StringifyMed: lastTaken is always written as null
StringifyMed_NullLastTaken(med) ==
    << <<"id", JsonString(med.id)>>,
       <<"name", JsonString(med.name)>>,
       <<"dosage", JsonString(med.dosage)>>,
       <<"frequency", JsonString(med.frequency)>>,
       <<"time", JsonString(med.time)>>,
       <<"lastTaken", JsonNull>>,
       <<"missed", JsonBool(med.missed)>> >>

\* one Medication object: the properties in creation order (lines 100-105)
StringifyMed(med) ==
    << <<"id", JsonString(med.id)>>,
       <<"name", JsonString(med.name)>>,
       <<"dosage", JsonString(med.dosage)>>,
       <<"frequency", JsonString(med.frequency)>>,
       <<"time", JsonString(med.time)>>,
       <<"lastTaken", IF med.lastTaken = NULL THEN JsonNull
                      ELSE JsonString(med.lastTaken)>>,
       <<"missed", JsonBool(med.missed)>> >>

\* JSON.stringify(medications)
JSONstringify(meds) ==
    [kind |-> "array", items |-> [i \in 1..Len(meds) |-> StringifyMed(meds[i])]]

\* the value of property key in a parsed object
Property(obj, key) ==
    LET k     == CHOOSE k \in 1..Len(obj) : obj[k][1] = key
        token == obj[k][2]
    IN  IF token[1] = "string" THEN token[2]
        ELSE IF token[1] = "null" THEN NULL
        ELSE token[1] = "true"

ParseMed(obj) ==
    [id        |-> Property(obj, "id"),
     name      |-> Property(obj, "name"),
     dosage    |-> Property(obj, "dosage"),
     frequency |-> Property(obj, "frequency"),
     time      |-> Property(obj, "time"),
     lastTaken |-> Property(obj, "lastTaken"),
     missed    |-> Property(obj, "missed")]

\* JSON.parse(saved) throws a SyntaxError on text that is not JSON
ParseThrows(saved) == saved.kind = "garbage"

\* JSON.parse(saved) on an array text
JSONparse(saved) == [i \in 1..Len(saved.items) |-> ParseMed(saved.items[i])]

\* localStorage.getItem('medications') returns null when the key is absent
Absent == [kind |-> "absent", items |-> <<>>]
Garbage == [kind |-> "garbage", items |-> <<>>]

\* saved ? JSON.parse(saved) : []   (when the parse does not throw)
InitialMedications(saved) ==
    IF saved.kind = "absent" THEN <<>> ELSE JSONparse(saved)

(***************************************************************************)
(* The state after construction: the page is not loaded yet; the storage   *)
(* key is absent or holds text that is not JSON; the platform permission   *)
(* is whatever the browser remembers for the origin.                       *)
(***************************************************************************)
Init ==
    /\ status = "unloaded"
    /\ medications = <<>>
    /\ notifications = <<>>
    /\ storage \in {Absent, Garbage}
    /\ clock = [day |-> 1, hour |-> 7, minute |-> 59]
    /\ permission \in {"default", "granted", "denied"}
    /\ promptOpen = FALSE
    /\ requests = 0
    /\ last = "other"
    /\ uids = <<>>
    /\ hist = <<>>
    /\ nextUid = 1

\* history of an entry that was never taken and never got a banner
NoHistory == [takenDay |-> 0, emits |-> 0, emitDay |-> 0]

\* history after a completed check of meds at clock c: a banner was emitted
\* for every due position (emits counts the banners since the last take, up to 2)
HistAfterCheck(meds, c) ==
    [u \in DOMAIN hist |->
        IF \E i \in 1..Len(meds) : uids[i] = u
        THEN LET med == meds[CHOOSE i \in 1..Len(meds) : uids[i] = u]
             IN  IF shouldNotify(med, c)
                 THEN [hist[u] EXCEPT !.emits = IF @ < 2 THEN @ + 1 ELSE 2,
                                      !.emitDay = c.day]
                 ELSE hist[u]
        ELSE hist[u]]

(***************************************************************************)
(* One run of checkMedications on the collection meds with the banners     *)
(* notes, followed by the re-render and the persist effect.  showThrows:   *)
(* the platform's Notification constructor throws (lines 57-61); the       *)
(* exception leaves the updater, the render fails and React unmounts the   *)
(* tree, so nothing of the update is committed or persisted.  persisted is *)
(* the storage content at the time of the run; onMount adds the            *)
(* permission request of lines 80-82.                                      *)
(***************************************************************************)
\* the calls of Notification.requestPermission() of one check: one per due
\* entry while the permission is neither granted nor denied (lines 57-64),
\* and the one of the mount effect (lines 80-82)
RequestsOfCheck(meds, c, onMount) ==
    IF permission = "default"
    THEN Cardinality(DuePositions(meds, c)) + (IF onMount THEN 1 ELSE 0)
    ELSE 0

\* the request counter counts up to 2
Counted(n) == IF n < 2 THEN n ELSE 2

RunCheck(meds, notes, showThrows, persisted, onMount) ==
    LET due == DuePositions(meds, clock)
    IN  /\ IF showThrows /\ permission = "granted" /\ due # {}
           THEN /\ status' = "crashed"
                /\ medications' = <<>>
                /\ notifications' = <<>>
                /\ storage' = persisted
                /\ promptOpen' = promptOpen
                /\ requests' = requests
                /\ hist' = hist
                /\ last' = "other"
           ELSE /\ status' = "running"
                /\ medications' = checkMedications(meds, clock)
                /\ notifications' = notes \o newNotifications(meds, clock)
                /\ storage' = JSONstringify(checkMedications(meds, clock))
                /\ promptOpen' = (promptOpen \/
                                     (permission = "default" /\ (onMount \/ due # {})))
                /\ requests' = Counted(requests + RequestsOfCheck(meds, clock, onMount))
                /\ hist' = HistAfterCheck(meds, clock)
                /\ last' = IF onMount THEN "load" ELSE "tick"
        /\ UNCHANGED <<clock, permission, uids, nextUid>>

\* mutant of Load: the checker effect only starts the interval
Load_NoImmediateCheck ==
    /\ status = "unloaded"
    /\ ~ParseThrows(storage)
    /\ status' = "running"
    /\ medications' = InitialMedications(storage)
    /\ notifications' = <<>>
    /\ storage' = JSONstringify(InitialMedications(storage))
    /\ promptOpen' = (permission = "default")
    /\ requests' = IF permission = "default" THEN 1 ELSE 0
    /\ last' = "load"
    /\ UNCHANGED <<clock, permission, uids, hist, nextUid>>

\* The page loads: the state initializers (lines 16-29), the first render,
\* the persist effect and the checker effect with its immediate check.
Load ==
    /\ status = "unloaded"
    /\ IF ParseThrows(storage)
       THEN /\ status' = "crashed"
            /\ last' = "other"
            /\ UNCHANGED <<medications, notifications, storage, clock, permission,
                           promptOpen, requests, uids, hist, nextUid>>
       ELSE \E showThrows \in BOOLEAN :
                RunCheck(InitialMedications(storage), <<>>, showThrows,
                         JSONstringify(InitialMedications(storage)), TRUE)

\* The 60-second interval fires (line 77).
Tick ==
    /\ status = "running"
    /\ \E showThrows \in BOOLEAN :
           RunCheck(medications, notifications, showThrows, storage, FALSE)

(***************************************************************************)
(* handleAddMedication, src/App.tsx:92-115.                                *)
(***************************************************************************)
\* mutant of Rejects: only the name is validated
Rejects_NameOnly(input) == input.name = <<>>

\* !newMedication.name || !newMedication.dosage  (the empty text is falsy)
Rejects(input) == input.name = <<>> \/ input.dosage = <<>>

\* the object of lines 100-105
NewMed(input, c) ==
    [id        |-> ToString(DateNow(c)),
     name      |-> input.name,
     dosage    |-> input.dosage,
     frequency |-> input.frequency,
     time      |-> input.time,
     lastTaken |-> NULL,
     missed    |-> FALSE]

\* mutant of Added: the new entry is put first
Added_First(meds, newMed) == <<newMed>> \o meds

\* [...prev, newMed]
Added(meds, newMed) == Append(meds, newMed)

FormInputs == [name : Names, dosage : Dosages, frequency : Frequencies, time : Times]

handleAddMedication(input) ==
    /\ status = "running"
    /\ IF Rejects(input)
       THEN /\ last' = "alert"
            /\ UNCHANGED <<status, medications, notifications, storage, clock,
                           permission, promptOpen, requests, uids, hist, nextUid>>
       ELSE /\ nextUid <= MaxAdds
            /\ medications' = Added(medications, NewMed(input, clock))
            /\ storage' = JSONstringify(Added(medications, NewMed(input, clock)))
            /\ uids' = Append(uids, nextUid)
            /\ hist' = Append(hist, NoHistory)
            /\ nextUid' = nextUid + 1
            /\ last' = "other"
            /\ UNCHANGED <<status, notifications, clock, permission, promptOpen,
                           requests>>

Add == \E input \in FormInputs : handleAddMedication(input)

(***************************************************************************)
(* handleDeleteMedication, src/App.tsx:117-119.                            *)
(***************************************************************************)
\* an id that no entry has
AbsentId == "none"

\* the ids a caller may pass
Ids == { medications[i].id : i \in 1..Len(medications) } \cup {AbsentId}

\* mutant of WithoutId: only the first entry with the id is removed
WithoutId_FirstOnly(meds, id) ==
    FilterBy(meds, [i \in 1..Len(meds) |->
                       ~(meds[i].id = id /\ \A j \in 1..(i - 1) : meds[j].id # id)])

\* prev.filter(med => med.id !== id)
WithoutId(meds, id) == FilterBy(meds, [i \in 1..Len(meds) |-> meds[i].id # id])

handleDeleteMedication(id) ==
    /\ status = "running"
    /\ medications' = WithoutId(medications, id)
    /\ storage' = JSONstringify(WithoutId(medications, id))
    /\ uids' = FilterBy(uids, [i \in 1..Len(medications) |-> medications[i].id # id])
    /\ hist' = [u \in DOMAIN hist |->
                  IF \E i \in 1..Len(medications) :
                        uids[i] = u /\ medications[i].id = id
                  THEN NoHistory ELSE hist[u]]
    /\ last' = "other"
    /\ UNCHANGED <<status, notifications, clock, permission, promptOpen, requests,
                   nextUid>>

Delete == \E id \in Ids : handleDeleteMedication(id)

(***************************************************************************)
(* handleTakeMedication, src/App.tsx:121-139.                              *)
(***************************************************************************)
\* prev.map(med => med.id === id ? { ...med, lastTaken: today, missed: false } : med)
Taken(meds, id, c) ==
    [i \in 1..Len(meds) |->
        IF meds[i].id = id
        THEN [meds[i] EXCEPT !.lastTaken = toLocaleDateString(c), !.missed = FALSE]
        ELSE meds[i]]

\* medications.find(med => med.id === id): the positions of the first match
\* (empty when there is none)
Find(meds, id) ==
    { i \in 1..Len(meds) :
        meds[i].id = id /\ \A j \in 1..(i - 1) : meds[j].id # id }

\* prev.filter(note => !note.includes(medication.name)), when find() found one
WithoutRelated(notes, meds, id) ==
    IF Find(meds, id) = {} THEN notes
    ELSE LET medication == meds[CHOOSE i \in Find(meds, id) : TRUE]
         IN  FilterBy(notes, [k \in 1..Len(notes) |->
                                 ~Includes(notes[k], medication.name)])

handleTakeMedication(id) ==
    /\ status = "running"
    /\ medications' = Taken(medications, id, clock)
    /\ storage' = JSONstringify(Taken(medications, id, clock))
    /\ notifications' = WithoutRelated(notifications, medications, id)
    /\ hist' = [u \in DOMAIN hist |->
                  IF \E i \in 1..Len(medications) :
                        uids[i] = u /\ medications[i].id = id
                  THEN [hist[u] EXCEPT !.takenDay = clock.day, !.emits = 0]
                  ELSE hist[u]]
    /\ last' = "other"
    /\ UNCHANGED <<status, clock, permission, promptOpen, requests, uids, nextUid>>

Take == \E id \in Ids : handleTakeMedication(id)

(***************************************************************************)
(* dismissNotification, src/App.tsx:141-143.  Positions count from 1 here. *)
(***************************************************************************)
\* mutant of WithoutIndex: the position is taken to count from 0
WithoutIndex_OffByOne(notes, index) ==
    FilterBy(notes, [i \in 1..Len(notes) |-> i # index + 1])

\* prev.filter((_, i) => i !== index)
WithoutIndex(notes, index) == FilterBy(notes, [i \in 1..Len(notes) |-> i # index])

dismissNotification(index) ==
    /\ status = "running"
    /\ notifications' = WithoutIndex(notifications, index)
    /\ last' = "dismiss"
    /\ UNCHANGED <<status, medications, storage, clock, permission, promptOpen,
                   requests, uids, hist, nextUid>>

Dismiss == \E index \in 1..(Len(notifications) + 1) : dismissNotification(index)

(***************************************************************************)
(* The environment: the clock, the user's answer to the permission prompt, *)
(* and the page being closed (the effect's cleanup clears the interval,    *)
(* line 84; the component state is gone, the storage entry stays).         *)
(***************************************************************************)
AdvanceClock ==
    /\ \E d \in 1..MaxDay, t \in TimesOfDay :
           /\ Later(clock, [day |-> d, hour |-> t[1], minute |-> t[2]])
           /\ clock' = [day |-> d, hour |-> t[1], minute |-> t[2]]
    /\ last' = "other"
    /\ UNCHANGED <<status, medications, notifications, storage, permission,
                   promptOpen, requests, uids, hist, nextUid>>

AnswerPrompt ==
    /\ promptOpen
    /\ permission = "default"
    /\ permission' \in {"default", "granted", "denied"}   \* "default": prompt closed unanswered
    /\ promptOpen' = FALSE
    /\ last' = "other"
    /\ UNCHANGED <<status, medications, notifications, storage, clock, requests,
                   uids, hist, nextUid>>

Unload ==
    /\ status # "unloaded"
    /\ status' = "unloaded"
    /\ medications' = <<>>
    /\ notifications' = <<>>
    /\ promptOpen' = FALSE
    /\ requests' = 0
    /\ last' = "other"
    /\ UNCHANGED <<storage, clock, permission, uids, hist, nextUid>>

Next ==
    \/ Load
    \/ Tick
    \/ Add
    \/ Delete
    \/ Take
    \/ Dismiss
    \/ AdvanceClock
    \/ AnswerPrompt
    \/ Unload

Spec == Init /\ [][Next]_vars

(***************************************************************************)
(* Claims.                                                                 *)
(***************************************************************************)
\* the banner text of med is pending
HasBanner(med) == \E k \in 1..Len(notifications) : notifications[k] = NoteText(med)

\* C1: on every day on which a check runs after a medication's time of day
\* has been reached, a medication of the collection that is not confirmed on
\* that day has had a banner emitted on that day, whatever happened on
\* earlier days.
C1_BannerEveryDay ==
    (status = "running" /\ last \in {"load", "tick"}) =>
        \A i \in 1..Len(medications) :
            (shouldBeTaken(medications[i], clock) /\ ~takenToday(medications[i], clock))
                => hist[uids[i]].emitDay = clock.day

\* the positions of meds that the claims call due and unconfirmed at clock c
DueUnconfirmed(meds, c) ==
    { i \in 1..Len(meds) :
        /\ GreaterEq(currentTime(c), medicationTime(meds[i]))
        /\ meds[i].lastTaken # toLocaleDateString(c)
        /\ meds[i].missed = FALSE }

\* C2: one due check (a timer tick) sets missed on exactly the medications
\* that are due and unconfirmed, appends one banner "Time to take {name}
\* ({dosage})" for each of them, in order, and leaves every other
\* medication unchanged.
C2_OneDueCheck ==
    [][Tick =>
        /\ Len(medications') = Len(medications)
        /\ \A i \in 1..Len(medications) :
              medications'[i] =
                  IF i \in DueUnconfirmed(medications, clock)
                  THEN [medications[i] EXCEPT !.missed = TRUE]
                  ELSE medications[i]
        /\ notifications' = notifications \o
              Concat([i \in 1..Len(medications) |->
                  IF i \in DueUnconfirmed(medications, clock)
                  THEN <<NoteText(medications[i])>> ELSE <<>>])]_vars

\* C3: a medication gets at most one banner between two confirmations of
\* it (or since it was created), whatever else happens in between.
C3_AtMostOneBanner == \A u \in DOMAIN hist : hist[u].emits <= 1

\* a completed check has just passed over a flagged medication that got its
\* one banner earlier and whose banner is no longer pending
C3_Witness ==
    /\ status = "running"
    /\ last \in {"load", "tick"}
    /\ \E i \in 1..Len(medications) :
          /\ medications[i].missed
          /\ hist[uids[i]].emits = 1
          /\ ~HasBanner(medications[i])

\* C4: a medication confirmed today is not flagged missed and has had no
\* banner since the confirmation, at any later time of the same day.
C4_NoFlagAfterTake ==
    status = "running" =>
        \A i \in 1..Len(medications) :
            hist[uids[i]].takenDay = clock.day =>
                ~medications[i].missed /\ hist[uids[i]].emits = 0

\* a completed check has just passed over two medications whose time is
\* reached and that were confirmed today, one after it had been flagged
\* today and one that was never flagged
C4_Witness ==
    /\ status = "running"
    /\ last \in {"load", "tick"}
    /\ \E i, j \in 1..Len(medications) :
          /\ hist[uids[i]].takenDay = clock.day
          /\ hist[uids[i]].emitDay = clock.day
          /\ shouldBeTaken(medications[i], clock)
          /\ hist[uids[j]].takenDay = clock.day
          /\ hist[uids[j]].emitDay = 0
          /\ shouldBeTaken(medications[j], clock)

\* C5: takeMedication(id) sets lastTaken to today and missed to false on
\* the entry with that id and changes no other entry nor the order;
\* afterwards no pending banner contains that medication's name; with an
\* id that no entry has, medications and banners are unchanged.
C5_TakeEffect ==
    [][\A id \in Ids : handleTakeMedication(id) =>
        /\ Len(medications') = Len(medications)
        /\ \A i \in 1..Len(medications) :
              medications'[i] =
                  IF medications[i].id = id
                  THEN [medications[i] EXCEPT
                            !.lastTaken = toLocaleDateString(clock),
                            !.missed = FALSE]
                  ELSE medications[i]
        /\ \A i \in 1..Len(medications) :
              medications[i].id = id =>
                  \A k \in 1..Len(notifications') :
                      ~Includes(notifications'[k], medications[i].name)
        /\ (\A i \in 1..Len(medications) : medications[i].id # id) =>
              UNCHANGED <<medications, notifications>>]_vars

\* C6: a medication flagged missed has lastTaken different from today's
\* date and a time of day that the current time of day has reached.
C6_MissedMeansDueToday ==
    status = "running" =>
        \A i \in 1..Len(medications) :
            medications[i].missed =>
                /\ medications[i].lastTaken # toLocaleDateString(clock)
                /\ GreaterEq(currentTime(clock), medicationTime(medications[i]))

\* C7: addMedication with an empty name or an empty dosage is rejected and
\* changes neither the collection nor the persisted value nor the banners.
C7_RejectedAddChangesNothing ==
    [][\A input \in FormInputs :
        ((input.name = <<>> \/ input.dosage = <<>>) /\ handleAddMedication(input))
            => (last' = "alert" /\ UNCHANGED <<medications, storage, notifications>>)]_vars

\* an add has just been rejected while the collection holds an entry
C7_Witness == last = "alert" /\ status = "running" /\ Len(medications) >= 1

\* C8: when the persisted value is absent or cannot be parsed, startup ends
\* running with an empty collection.
C8_StartupFailsSoft ==
    (status # "unloaded" /\ storage.kind \in {"absent", "garbage"})
        => (status = "running" /\ medications = <<>>)

\* C9: while the page runs, the persisted value is the serialized
\* collection and parsing it gives back the collection: same entries, same
\* field values, same order.
C9_StorageMirrorsCollection ==
    status = "running" =>
        /\ storage = JSONstringify(medications)
        /\ ~ParseThrows(storage)
        /\ InitialMedications(storage) = medications

\* two entries are persisted, one flagged missed and one confirmed
C9_Witness ==
    /\ status = "running"
    /\ \E i, j \in 1..Len(medications) :
          /\ medications[i].missed
          /\ medications[j].lastTaken # NULL
          /\ ~medications[j].missed

\* C10: no two medications of the collection have the same id.
C10_UniqueIds ==
    \A i, j \in 1..Len(medications) :
        i # j => medications[i].id # medications[j].id

RECURSIVE Remaining(_, _)
\* meds without its entries of the given id, the others in their order
Remaining(meds, id) ==
    IF meds = <<>> THEN <<>>
    ELSE IF Head(meds).id = id THEN Remaining(Tail(meds), id)
    ELSE <<Head(meds)>> \o Remaining(Tail(meds), id)

\* C11: deleteMedication(id) removes exactly the entries whose id matches and
\* leaves every other entry, and their relative order, unchanged; with an id
\* that no entry has, the collection is unchanged and no error is raised.
C11_DeleteRemovesMatches ==
    [][\A id \in Ids :
          handleDeleteMedication(id) =>
              /\ medications' = Remaining(medications, id)
              /\ ((\A i \in 1..Len(medications) : medications[i].id # id)
                     => medications' = medications)
              /\ status' = "running"]_vars

\* of two entries the first was deleted and the second is what remains
C11_Witness ==
    /\ status = "running"
    /\ nextUid = 3
    /\ uids = <<2>>
    /\ Len(medications) = 1

\* the number of banners of notes with the text t
Occurrences(notes, t) == Cardinality({ k \in 1..Len(notes) : notes[k] = t })

\* C12: a banner emitted for medication M leaves the banner list only by a
\* dismiss of that banner or by takeMedication on M itself: an add, a
\* delete, a completed due check and a takeMedication on another medication
\* N (another id, another banner text) keep every banner of M.
C12_BannerKeptByOtherOperations ==
    [][\A i \in 1..Len(medications) :
          LET M == medications[i]
          IN  \/ Add
              \/ Delete
              \/ (Tick /\ status' = "running")
              \/ \E id \in Ids :
                    /\ handleTakeMedication(id)
                    /\ M.id # id
                    /\ \A j \in 1..Len(medications) :
                          medications[j].id = id => NoteText(medications[j]) # NoteText(M)
              => Occurrences(notifications', NoteText(M))
                     >= Occurrences(notifications, NoteText(M))]_vars

\* C13: dismiss(index) removes exactly the banner at that position, the other
\* banners keeping their order, and an index past the end removes nothing;
\* the collection and its stored copy are unchanged, so the medication of
\* the dismissed banner stays flagged missed.
C13_DismissRemovesOneBanner ==
    [][\A index \in 1..(Len(notifications) + 1) :
          dismissNotification(index) =>
              /\ notifications' =
                     IF index <= Len(notifications)
                     THEN SubSeq(notifications, 1, index - 1)
                              \o SubSeq(notifications, index + 1, Len(notifications))
                     ELSE notifications
              /\ UNCHANGED <<medications, storage, status>>]_vars

\* a banner was dismissed: its medication is still flagged, and the banner of
\* another medication is still pending
C13_Witness ==
    /\ status = "running"
    /\ last = "dismiss"
    /\ \E i \in 1..Len(medications) :
          medications[i].missed /\ ~HasBanner(medications[i])
    /\ Len(notifications) >= 1

\* the collection as the storage entry holds it (it outlives the page)
Stored == IF storage.kind = "array" THEN JSONparse(storage) ELSE <<>>

\* C14: once the missed flag of a medication is true it stays true through
\* timer ticks, clock changes (a change of day included), dismisses,
\* reloads, adds and operations on other medications; only takeMedication
\* with the id of that medication sets it back to false.
C14_MissedStaysUntilTake ==
    [][IF storage' = storage
       THEN uids' = uids      \* the same entries with the same flags
       ELSE LET before == Stored
                after  == Stored'
            IN  \A i \in 1..Len(before), j \in 1..Len(after) :
                    (/\ uids[i] = uids'[j]
                     /\ before[i].missed
                     /\ ~(\E id \in Ids : handleTakeMedication(id) /\ before[i].id = id))
                        => after[j].missed]_vars

\* a medication flagged on day 1 and never taken is still flagged after a
\* reload on day 2
C14_Witness ==
    /\ status = "running"
    /\ last = "load"
    /\ clock.day = 2
    /\ \E i \in 1..Len(medications) :
          /\ medications[i].missed
          /\ hist[uids[i]].emitDay = 1
          /\ hist[uids[i]].takenDay = 0

\* what every step of Load and of Tick records: a completed check, or the
\* page going down
CheckRecorded ==
    last' \in {"load", "tick"} \/ (status # "crashed" /\ status' = "crashed")

\* C15: after a reload the banner list starts empty, and the startup check
\* and every later tick add a banner exactly for the medications whose
\* missed flag goes from false to true in that check: a medication that was
\* persisted with missed = true gets none until it is confirmed.
C15_BannerOnlyOnTransition ==
    [][(CheckRecorded /\ (Load \/ Tick)) =>
          LET before == IF status = "unloaded" THEN InitialMedications(storage)
                        ELSE medications
              base   == IF status = "unloaded" THEN <<>> ELSE notifications
          IN  IF status' = "running"
              THEN notifications' =
                       base \o Concat([i \in 1..Len(before) |->
                                          IF ~before[i].missed /\ medications'[i].missed
                                          THEN <<NoteText(before[i])>>
                                          ELSE <<>>])
              ELSE notifications' = <<>>]_vars

\* right after a reload a medication that was stored as missed has no banner
\* while another one, flagged by the startup check, has one
C15_Witness ==
    /\ status = "running"
    /\ last = "load"
    /\ \E i, j \in 1..Len(medications) :
          /\ medications[i].missed
          /\ ~HasBanner(medications[i])
          /\ hist[uids[i]].emits = 1
          /\ HasBanner(medications[j])

\* C16: startup runs one due check before the first tick: once startup has
\* completed, every loaded medication whose time of day has passed, with
\* lastTaken other than today and missed = false in storage, is flagged
\* missed and has a banner, no tick having fired; and while the page is not
\* running no step changes the collection, the banners or the storage.
C16_StartupCheckAndTeardown ==
    [][/\ (Load /\ status' = "running") =>
              \A i \in DueUnconfirmed(InitialMedications(storage), clock) :
                  /\ medications'[i].missed
                  /\ \E k \in 1..Len(notifications') :
                        notifications'[k] = NoteText(medications'[i])
       /\ (status # "running" /\ status' # "running") =>
              UNCHANGED <<medications, notifications, storage>>]_vars

\* the startup check has flagged a stored medication and queued its banner
C16_Witness ==
    /\ status = "running"
    /\ last = "load"
    /\ \E i \in 1..Len(medications) :
          medications[i].missed /\ HasBanner(medications[i])

\* C17: the outcome of a due check does not depend on the platform
\* notification call: whether showing the native notification succeeds or
\* throws, the check ends without an error, with every due medication
\* flagged missed and holding a banner.
C17_CheckSurvivesNotificationFailure ==
    [][((Load /\ ~ParseThrows(storage)) \/ Tick) =>
          LET before == IF status = "unloaded" THEN InitialMedications(storage)
                        ELSE medications
          IN  /\ status' = "running"
              /\ \A i \in DuePositions(before, clock) :
                    /\ medications'[i].missed
                    /\ Occurrences(notifications', NoteText(before[i])) >= 1]_vars

\* C18: during one page lifetime the permission prompt is requested at most
\* once, and only while the permission is undetermined (never while it is
\* granted or denied), however many medications become due and however many
\* checks run.
C18_AtMostOnePermissionRequest ==
    [][/\ requests' <= 1
       /\ (requests' > requests => permission = "default")]_vars

\* the fields of an entry that no operation changes
Core(med) == <<med.id, med.name, med.dosage, med.frequency, med.time>>

Cores(meds) == [i \in 1..Len(meds) |-> Core(meds[i])]

RECURSIVE IsSubseq(_, _)
\* a is b with some of its elements left out
IsSubseq(a, b) ==
    IF a = <<>> THEN TRUE
    ELSE IF b = <<>> THEN FALSE
    ELSE IF Head(a) = Head(b) THEN IsSubseq(Tail(a), Tail(b))
    ELSE IsSubseq(a, Tail(b))

\* C19: the collection is insertion-ordered under every operation: a
\* successful addMedication appends exactly one entry, with lastTaken = null
\* and missed = false, after the earlier entries, which it leaves unchanged;
\* take, delete and due checks keep the relative order of the entries that
\* remain, and so does the stored copy that a reload reads back.  (Only the
\* steps that touch the page status, the collection or the storage matter.)
C19_InsertionOrder ==
    [][(status' # status \/ medications' # medications \/ storage' # storage) =>
       /\ (status = "running" /\ status' = "running") =>
              IF /\ nextUid' # nextUid
                 /\ \E input \in FormInputs : handleAddMedication(input) /\ ~Rejects(input)
              THEN /\ Len(medications') = Len(medications) + 1
                   /\ SubSeq(medications', 1, Len(medications)) = medications
                   /\ medications'[Len(medications')].lastTaken = NULL
                   /\ medications'[Len(medications')].missed = FALSE
              ELSE IsSubseq(Cores(medications'), Cores(medications))
       /\ status' = "running" => Cores(Stored') = Cores(medications')
       /\ (Load /\ status' = "running") => Cores(medications') = Cores(Stored)]_vars

\* two medications added in this order, the first taken and the second
\* flagged by a check, are in this order after a reload
C19_Witness ==
    /\ status = "running"
    /\ last = "load"
    /\ uids = <<1, 2>>
    /\ Len(medications) = 2
    /\ medications[1].name # medications[2].name
    /\ medications[1].lastTaken # NULL
    /\ medications[2].missed
====
